---- MODULE Spec2Model ----
(***************************************************************************)
(* Node layer of the copy-on-write B+tree in src/types/btree.go.            *)
(*                                                                         *)
(* A Node is a Go byte slice.  It is modelled as a function from           *)
(* 0..BufLen-1 to bytes; two such buffers live in the heap `mem`, so that  *)
(* a call may pass the same buffer as destination and as source.           *)
(* uint16 arithmetic wraps modulo 2^16.  A uint64 is held as four          *)
(* little-endian 16-bit limbs.  A Go run-time panic (index or slice bound  *)
(* out of range) clears the `ok` flag and stops the call where it stands;  *)
(* a read that panics yields PANIC.                                        *)
(*                                                                         *)
(* src/unnamed/part_000 holds the same codec and lookup functions; its     *)
(* setOffset returns at once for idx = 0, an index no Builder call passes. *)
(***************************************************************************)
EXTENDS Integers, Sequences, FiniteSets, TLC

\* ---------------------------------------------------------------- constants
HEADER_SIZE == 4

BTREE_PAGE_SIZE == 4096

BTREE_MAX_KEY_SIZE == 1000

BTREE_MAX_VAL_SIZE == 3000

BNODE_INTERNAL_TYPE == 0

BNODE_LEAF_TYPE == 1

\* ------------------------------------------------------------------- bounds
\* largest key count the builder is asked for
MaxKeys == 3

\* largest start index and count handed to a stand-alone nodeAppendRange
MaxStart == 1

MaxCount == 2

\* ------------------------------------------------------------ machine words
U16 == 65536

PANIC == -1

\* result of a slice-returning read that panicked
PanicBytes == <<PANIC>>

\* every buffer is one page long (len = cap)
BufLen == BTREE_PAGE_SIZE

Bufs == {"old", "new"}

ZeroBuf == [i \in 0..(BufLen - 1) |-> 0]

\* uint16 addition as the compiler performs it; PANIC is absorbing
Add16(a, b) == IF a = PANIC \/ b = PANIC THEN PANIC ELSE (a + b) % U16

\* binary.LittleEndian.Uint16(node[pos:])
GetU16(node, pos) ==
    IF pos = PANIC \/ pos + 2 > BufLen THEN PANIC
    ELSE node[pos] + 256 * node[pos + 1]

\* binary.LittleEndian.PutUint16(node[pos:], v) on buffer b of the heap
PutU16(st, b, pos, v) ==
    IF ~st.ok THEN st
    ELSE IF pos = PANIC \/ v = PANIC \/ pos + 2 > BufLen
         THEN [st EXCEPT !.ok = FALSE]
         ELSE [st EXCEPT !.mem[b][pos] = v % 256,
                         !.mem[b][pos + 1] = (v \div 256) % 256]

\* binary.LittleEndian.Uint64(node[pos:]) as four 16-bit limbs
GetU64(node, pos) ==
    IF pos = PANIC \/ pos + 8 > BufLen THEN PanicBytes
    ELSE [k \in 1..4 |-> node[pos + 2 * (k - 1)] + 256 * node[pos + 2 * (k - 1) + 1]]

\* binary.LittleEndian.PutUint64(node[pos:], val)
PutU64(st, b, pos, val) ==
    IF ~st.ok THEN st
    ELSE IF pos = PANIC \/ pos + 8 > BufLen
         THEN [st EXCEPT !.ok = FALSE]
         ELSE [st EXCEPT !.mem[b][pos]     = val[1] % 256,
                         !.mem[b][pos + 1] = val[1] \div 256,
                         !.mem[b][pos + 2] = val[2] % 256,
                         !.mem[b][pos + 3] = val[2] \div 256,
                         !.mem[b][pos + 4] = val[3] % 256,
                         !.mem[b][pos + 5] = val[3] \div 256,
                         !.mem[b][pos + 6] = val[4] % 256,
                         !.mem[b][pos + 7] = val[4] \div 256]

\* the first k bytes of data written into node from pos on, byte by byte
RECURSIVE WriteFew(_, _, _, _)
WriteFew(node, pos, data, k) ==
    IF k = 0 THEN node
    ELSE WriteFew([node EXCEPT ![pos + k - 1] = data[k]], pos, data, k - 1)

\* the same for a long run, as one function
WriteBytes(node, pos, data, k) ==
    IF k <= 16 THEN WriteFew(node, pos, data, k)
    ELSE [i \in 0..(BufLen - 1) |->
             IF i >= pos /\ i < pos + k THEN data[i - pos + 1] ELSE node[i]]

Min(a, b) == IF a < b THEN a ELSE b

\* copy(node[pos:], data): panics when pos > len(node), else copies what fits
CopyBytes(st, b, pos, data) ==
    IF ~st.ok THEN st
    ELSE IF pos = PANIC \/ pos > BufLen
         THEN [st EXCEPT !.ok = FALSE]
         ELSE [st EXCEPT !.mem[b] =
                  WriteBytes(st.mem[b], pos, data, Min(Len(data), BufLen - pos))]

\* node[pos:][:n] as a sequence of bytes
Slice(node, pos, n) ==
    IF pos = PANIC \/ n = PANIC \/ pos > BufLen \/ n > BufLen - pos THEN PanicBytes
    ELSE [i \in 1..n |-> node[pos + i - 1]]

\* bytes.Compare
RECURSIVE Compare(_, _)
Compare(a, b) ==
    IF a = <<>> /\ b = <<>> THEN 0
    ELSE IF a = <<>> THEN -1
    ELSE IF b = <<>> THEN 1
    ELSE IF Head(a) < Head(b) THEN -1
    ELSE IF Head(a) > Head(b) THEN 1
    ELSE Compare(Tail(a), Tail(b))

\* -------------------------------------------------------------- byte codec
btype(node) == GetU16(node, 0)

nkeys(node) == GetU16(node, 2)

setHeader(st, b, bt, nk) == PutU16(PutU16(st, b, 0, bt), b, 2, nk)

getPtr(node, idx) == GetU64(node, (HEADER_SIZE + 8 * idx) % U16)

setPtr(st, b, idx, val) == PutU64(st, b, (HEADER_SIZE + 8 * idx) % U16, val)

\* pos-1 wraps for pos = 0
offsetIdx(node, pos) ==
    (HEADER_SIZE + 8 * nkeys(node) + 2 * ((pos + U16 - 1) % U16)) % U16

getOffset(node, idx) ==
    IF idx = 0 THEN 0 ELSE GetU16(node, offsetIdx(node, idx))

setOffset(st, b, idx, offset) ==
    IF ~st.ok THEN st ELSE PutU16(st, b, offsetIdx(st.mem[b], idx), offset)

kvPos(node, idx) ==
    Add16((HEADER_SIZE + 8 * nkeys(node) + 2 * nkeys(node)) % U16, getOffset(node, idx))

getKey(node, idx) ==
    LET pos  == kvPos(node, idx)
        klen == GetU16(node, pos)
    IN  Slice(node, Add16(pos, 4), klen)

\* the value length is read at pos+klen
getVal(node, idx) ==
    LET pos  == kvPos(node, idx)
        klen == GetU16(node, pos)
        vlen == GetU16(node, Add16(pos, klen))
        base == Add16(pos, 4)
    IN  IF base = PANIC \/ klen = PANIC \/ vlen = PANIC THEN PanicBytes
        ELSE IF base > BufLen \/ klen > BufLen - base THEN PanicBytes
        ELSE Slice(node, base + klen, vlen)

nbytes(node) == kvPos(node, nkeys(node))

\* ------------------------------------------------------------ lookup engine
\* nodeLookupLE's loop recording an index only for a strictly smaller key
RECURSIVE LookupLELoopStrict(_, _, _, _)
LookupLELoopStrict(node, key, i, found) ==
    IF i >= nkeys(node) THEN found
    ELSE LET k == getKey(node, i)
         IN  IF k = PanicBytes THEN PANIC
             ELSE LET cmp == Compare(k, key)
                      f2  == IF cmp < 0 THEN i ELSE found
                  IN  IF cmp >= 0 THEN f2
                      ELSE LookupLELoopStrict(node, key, i + 1, f2)

\* loop body of nodeLookupLE from index i on
RECURSIVE LookupLELoop(_, _, _, _)
LookupLELoop(node, key, i, found) ==
    IF i >= nkeys(node) THEN found
    ELSE LET k == getKey(node, i)
         IN  IF k = PanicBytes THEN PANIC
             ELSE LET cmp == Compare(k, key)
                      f2  == IF cmp <= 0 THEN i ELSE found
                  IN  IF cmp >= 0 THEN f2
                      ELSE LookupLELoop(node, key, i + 1, f2)

nodeLookupLE(node, key) == LookupLELoop(node, key, 1, 0)

\* loop body of nodeLookupEQ from index i on
RECURSIVE LookupEQLoop(_, _, _)
LookupEQLoop(node, key, i) ==
    IF i >= nkeys(node) THEN 0
    ELSE LET k == getKey(node, i)
         IN  IF k = PanicBytes THEN PANIC
             ELSE IF k = key THEN i
             ELSE LookupEQLoop(node, key, i + 1)

nodeLookupEQ(node, key) == LookupEQLoop(node, key, 1)

\* ------------------------------------------------------------- node builder
\* copy(new[dpos:dpos+n], old[spos:spos+n]); both slices are taken first
CopyRange(st, new, old, dpos, spos, n) ==
    IF ~st.ok THEN st
    ELSE LET dhi == Add16(dpos, n)
             shi == Add16(spos, n)
         IN  IF dpos = PANIC \/ spos = PANIC
                \/ dpos > dhi \/ dhi > BufLen \/ spos > shi \/ shi > BufLen
             THEN [st EXCEPT !.ok = FALSE]
             ELSE [st EXCEPT !.mem[new] =
                      WriteBytes(st.mem[new], dpos,
                                 [i \in 1..n |-> st.mem[old][spos + i - 1]], n)]

\* nodeAppendRange with the two arguments of copy exchanged
nodeAppendRangeIntoOld(st, new, old, dstNew, srcOld, n) ==
    IF ~st.ok THEN st
    ELSE CopyRange(st, old, new,
                   kvPos(st.mem[old], dstNew), kvPos(st.mem[new], srcOld), n)

\* the destination position is taken at srcOld, the source position at dstNew
nodeAppendRange(st, new, old, dstNew, srcOld, n) ==
    IF ~st.ok THEN st
    ELSE CopyRange(st, new, old,
                   kvPos(st.mem[new], srcOld), kvPos(st.mem[old], dstNew), n)

nodeAppendKV(st, new, idx, ptr, key, val) ==
    LET s1  == setPtr(st, new, idx, ptr)
        pos == kvPos(s1.mem[new], idx)
        s2  == PutU16(s1, new, pos, Len(key) % U16)
        s3  == PutU16(s2, new, Add16(pos, 2), Len(val) % U16)
        s4  == CopyBytes(s3, new, Add16(pos, 4), key)
        s5  == CopyBytes(s4, new, Add16(Add16(pos, 4), Len(key) % U16), val)
    IN  setOffset(s5, new, (idx + 1) % U16,
                  Add16(Add16(getOffset(s5.mem[new], idx), 4),
                        (Len(key) + Len(val)) % U16))

Zero64 == <<0, 0, 0, 0>>

leafInsert(st, new, old, idx, key, val) ==
    LET s1 == setHeader(st, new, BNODE_LEAF_TYPE, Add16(nkeys(st.mem[old]), 1))
        s2 == nodeAppendRange(s1, new, old, 0, 0, idx)
        s3 == nodeAppendKV(s2, new, idx, Zero64, key, val)
    IN  nodeAppendRange(s3, new, old, (idx + 1) % U16, idx,
                        (nkeys(s3.mem[old]) + U16 - idx) % U16)

\* ------------------------------------------------------------------ inputs
BigVal == [i \in 1..BTREE_MAX_VAL_SIZE |-> 118]

\* a child page identifier with bytes in every limb
SomePtr == <<513, 0, 7, 32768>>

\* the (ptr, key, val) triples handed to nodeAppendKV while building a node:
\* b/2, d/4, f/6 and h with a value of the largest size
Entries ==
    { [ptr |-> Zero64,  key |-> <<98>>,  val |-> <<50>>],
      [ptr |-> SomePtr, key |-> <<100>>, val |-> <<52>>],
      [ptr |-> Zero64,  key |-> <<102>>, val |-> <<54>>],
      [ptr |-> SomePtr, key |-> <<104>>, val |-> BigVal] }

\* search keys: a, b, bd, d, e, g
LookupKeys == { <<97>>, <<98>>, <<98, 100>>, <<100>>, <<101>>, <<103>> }

\* (key, val) pairs handed to leafInsert: (c,3) is new, (d,9) names a stored key
InsertKVs == { [key |-> <<99>>, val |-> <<51>>], [key |-> <<100>>, val |-> <<57>>] }

\* -------------------------------------------------------------------- state
VARIABLES mem, ok, pc, built, last

vars == <<mem, ok, pc, built, last>>

NoBytes == <<>>

Call(op, dst, src, idx, srcIdx, cnt, key, val, res) ==
    [op |-> op, dst |-> dst, src |-> src, idx |-> idx, srcIdx |-> srcIdx,
     cnt |-> cnt, key |-> key, val |-> val, res |-> res]

Init ==
    /\ mem = [b \in Bufs |-> ZeroBuf]
    /\ ok = TRUE
    /\ pc = "init"
    /\ built = <<>>
    /\ last = Call("none", "old", "old", 0, 0, 0, NoBytes, NoBytes, <<>>)

\* the caller zeroes a page and sets the header for n keys
SetHeader ==
    /\ pc = "init"
    /\ \E bt \in {BNODE_INTERNAL_TYPE, BNODE_LEAF_TYPE}, n \in 0..MaxKeys :
         LET st == setHeader([mem |-> mem, ok |-> ok], "old", bt, n)
         IN  /\ mem' = st.mem
             /\ ok' = st.ok
             /\ pc' = IF n = 0 THEN "ready" ELSE "build"
             /\ last' = Call("setHeader", "old", "old", 0, 0, n, NoBytes, NoBytes, <<>>)
    /\ UNCHANGED built

\* the caller appends the next entry, idx = 0, 1, ... in increasing order
AppendKV ==
    /\ pc = "build"
    /\ \E e \in Entries :
         LET idx == Len(built)
             st  == nodeAppendKV([mem |-> mem, ok |-> ok], "old", idx, e.ptr, e.key, e.val)
         IN  /\ mem' = st.mem
             /\ ok' = st.ok
             /\ built' = Append(built, e)
             /\ pc' = IF ~st.ok THEN "done"
                      ELSE IF idx + 1 = nkeys(st.mem["old"]) THEN "ready" ELSE "build"
             /\ last' = Call("nodeAppendKV", "old", "old", idx, 0, 0, e.key, e.val, <<>>)

\* getPtr, getKey and getVal of one stored entry
Decode ==
    /\ pc = "ready"
    /\ \E i \in 0..(Len(built) - 1) :
         LET res == <<getPtr(mem["old"], i), getKey(mem["old"], i), getVal(mem["old"], i)>>
         IN  /\ last' = Call("decode", "old", "old", i, 0, 0, NoBytes, NoBytes, res)
             /\ ok' = (PanicBytes \notin {res[1], res[2], res[3]})
    /\ pc' = "done"
    /\ UNCHANGED <<mem, built>>

LookupLE ==
    /\ pc = "ready"
    /\ \E k \in LookupKeys :
         LET res == nodeLookupLE(mem["old"], k)
         IN  /\ last' = Call("nodeLookupLE", "old", "old", 0, 0, 0, k, NoBytes, res)
             /\ ok' = (res # PANIC)
    /\ pc' = "done"
    /\ UNCHANGED <<mem, built>>

LookupEQ ==
    /\ pc = "ready"
    /\ \E k \in LookupKeys :
         LET res == nodeLookupEQ(mem["old"], k)
         IN  /\ last' = Call("nodeLookupEQ", "old", "old", 0, 0, 0, k, NoBytes, res)
             /\ ok' = (res # PANIC)
    /\ pc' = "done"
    /\ UNCHANGED <<mem, built>>

\* leafInsert into a zeroed page, or into the source page itself
LeafInsert ==
    /\ pc = "ready"
    /\ \E dst \in Bufs, idx \in 0..Len(built), kv \in InsertKVs :
         LET st == leafInsert([mem |-> mem, ok |-> ok], dst, "old", idx, kv.key, kv.val)
         IN  /\ mem' = st.mem
             /\ ok' = st.ok
             /\ last' = Call("leafInsert", dst, "old", idx, 0, 0, kv.key, kv.val, <<>>)
    /\ pc' = "done"
    /\ UNCHANGED built

\* the caller sets the header of the zeroed destination page
PrepareDst ==
    /\ pc = "ready"
    /\ \E n \in {Len(built), Len(built) + 1} :
         LET st == setHeader([mem |-> mem, ok |-> ok], "new", BNODE_LEAF_TYPE, n)
         IN  /\ mem' = st.mem
             /\ ok' = st.ok
             /\ last' = Call("setHeader", "new", "new", 0, 0, n, NoBytes, NoBytes, <<>>)
    /\ pc' = "dst"
    /\ UNCHANGED built

AppendRange ==
    /\ pc = "dst"
    /\ \E dstNew \in 0..MaxStart, srcOld \in 0..MaxStart, n \in 0..MaxCount :
         LET dst == "new"
             st  == nodeAppendRange([mem |-> mem, ok |-> ok], dst, "old", dstNew, srcOld, n)
         IN  /\ mem' = st.mem
             /\ ok' = st.ok
             /\ last' = Call("nodeAppendRange", dst, "old", dstNew, srcOld, n,
                             NoBytes, NoBytes, <<>>)
    /\ pc' = "done"
    /\ UNCHANGED built

Next ==
    \/ SetHeader
    \/ AppendKV
    \/ Decode
    \/ LookupLE
    \/ LookupEQ
    \/ LeafInsert
    \/ PrepareDst
    \/ AppendRange

Spec == Init /\ [][Next]_vars

TypeOK ==
    /\ ok \in BOOLEAN
    /\ pc \in {"init", "build", "ready", "dst", "done"}

\* --------------------------------------------------- vocabulary of the claims
\* lexicographic order on byte strings, stated directly
LexLess(a, b) ==
    \E i \in 1..(Min(Len(a), Len(b)) + 1) :
        /\ \A j \in 1..(i - 1) : a[j] = b[j]
        /\ \/ i > Len(a) /\ i <= Len(b)
           \/ i <= Len(a) /\ i <= Len(b) /\ a[i] < b[i]

LexLE(a, b) == a = b \/ LexLess(a, b)

StrictlyAscending(keys) == \A i \in 1..(Len(keys) - 1) : LexLess(keys[i], keys[i + 1])

BuiltKeys == [i \in 1..Len(built) |-> built[i].key]

\* the source node is complete and lies inside its page
SrcWellFormed ==
    /\ nkeys(mem["old"]) = Len(built)
    /\ nbytes(mem["old"]) # PANIC
    /\ nbytes(mem["old"]) <= BufLen

\* entry i of a node read by the documented layout | klen | vlen | key | val |
LayoutKey(node, i) ==
    LET pos == kvPos(node, i)
    IN  Slice(node, Add16(pos, 4), GetU16(node, pos))

LayoutVal(node, i) ==
    LET pos  == kvPos(node, i)
        klen == GetU16(node, pos)
    IN  Slice(node, Add16(Add16(pos, 4), klen), GetU16(node, Add16(pos, 2)))

LayoutEntry(node, i) ==
    [ptr |-> getPtr(node, i), key |-> LayoutKey(node, i), val |-> LayoutVal(node, i)]

\* s with e put in front of its element number idx (0-based)
InsertAt(s, idx, e) ==
    [j \in 1..(Len(s) + 1) |->
        IF j <= idx THEN s[j] ELSE IF j = idx + 1 THEN e ELSE s[j - 1]]

Fresh == last.dst # last.src

\* ------------------------------------------------------------------- claims
\* C1: decoding a node built by setHeader and nodeAppendKV (idx = 0..n-1) gives
\* back, for every i, the pointer, the key and the value that were appended.
C1_RoundTrip ==
    (last.op = "decode" /\ SrcWellFormed) =>
        last.res = <<built[last.idx + 1].ptr, built[last.idx + 1].key, built[last.idx + 1].val>>

\* C2: leafInsert of (key, val) at idx into a fresh page gives a Leaf node of
\* n+1 entries: the source's entries with (0, key, val) put at position idx.
C2_LeafInsert ==
    (last.op = "leafInsert" /\ Fresh /\ SrcWellFormed) =>
        /\ ok
        /\ btype(mem["new"]) = BNODE_LEAF_TYPE
        /\ nkeys(mem["new"]) = Len(built) + 1
        /\ \A j \in 0..Len(built) :
              LayoutEntry(mem["new"], j) =
                  InsertAt(built, last.idx, [ptr |-> Zero64, key |-> last.key, val |-> last.val])[j + 1]

\* C3: a Builder call writes only into its destination buffer: every other
\* buffer, the source node's among them, keeps every byte.
C3_NonMutation ==
    [][ last'.op \in {"nodeAppendRange", "nodeAppendKV", "leafInsert"} =>
            \A b \in Bufs \ {last'.dst} : mem'[b] = mem[b] ]_vars

C3_Witness ==
    /\ last.op = "leafInsert"
    /\ last.dst = "new"
    /\ ok
    /\ Len(built) = 3
    /\ nkeys(mem["new"]) = 4
    /\ mem["old"] # mem["new"]

\* C4: on a node with strictly ascending keys nodeLookupLE returns the greatest
\* index whose key is <= the search key, and 0 when there is none.
C4_LookupLE ==
    (last.op = "nodeLookupLE" /\ SrcWellFormed /\ StrictlyAscending(BuiltKeys)) =>
        LET le == {i \in 0..(Len(built) - 1) : LexLE(BuiltKeys[i + 1], last.key)}
        IN  /\ le = {} => last.res = 0
            /\ le # {} => (last.res \in le /\ \A i \in le : i <= last.res)

\* keys b, d, f searched for e: index 1
C4_Witness ==
    /\ last.op = "nodeLookupLE"
    /\ BuiltKeys = << <<98>>, <<100>>, <<102>> >>
    /\ last.key = <<101>>
    /\ last.res = 1

\* the value nodeLookupEQ returns for "not found"
NotFound == 0

\* C5: on a node with strictly ascending keys nodeLookupEQ returns the index
\* of the key equal to the search key, and the not-found signal when there
\* is none; a found index is never the not-found signal.
C5_LookupEQ ==
    (last.op = "nodeLookupEQ" /\ SrcWellFormed /\ StrictlyAscending(BuiltKeys)) =>
        LET eq == {i \in 0..(Len(built) - 1) : BuiltKeys[i + 1] = last.key}
        IN  /\ eq = {} => last.res = NotFound
            /\ eq # {} => (last.res \in eq /\ last.res # NotFound)

\* C6: a node the Builder has finished, from keys of at most 1000 bytes and
\* values of at most 3000 bytes, has nbytes() <= BTREE_PAGE_SIZE.
C6_SizeCeiling ==
    (/\ last.op \in {"nodeAppendKV", "leafInsert"}
     /\ ok
     /\ pc \in {"ready", "done"}
     /\ \A i \in 1..Len(built) : /\ Len(built[i].key) <= BTREE_MAX_KEY_SIZE
                                 /\ Len(built[i].val) <= BTREE_MAX_VAL_SIZE) =>
        nbytes(mem[last.dst]) <= BTREE_PAGE_SIZE

\* C7: leafInsert of a new key at its sorted position into a leaf with
\* strictly ascending keys gives a node whose keys are strictly ascending.
C7_Sorted ==
    (/\ last.op = "leafInsert" /\ Fresh /\ SrcWellFormed
     /\ StrictlyAscending(InsertAt(BuiltKeys, last.idx, last.key))) =>
        /\ ok
        /\ StrictlyAscending([i \in 1..nkeys(mem["new"]) |-> getKey(mem["new"], i - 1)])

\* C8: inserting a key that is already stored at index i replaces the value
\* at i and leaves the key count as it was.
C8_Overwrite ==
    (/\ last.op = "leafInsert" /\ Fresh /\ SrcWellFormed
     /\ last.idx < Len(built)
     /\ BuiltKeys[last.idx + 1] = last.key) =>
        /\ ok
        /\ nkeys(mem["new"]) = Len(built)
        /\ \A j \in 0..(Len(built) - 1) :
              LayoutEntry(mem["new"], j) =
                  IF j = last.idx
                  THEN [ptr |-> Zero64, key |-> last.key, val |-> last.val]
                  ELSE [built[j + 1] EXCEPT !.ptr = Zero64]

\* C9: leafInsert makes nbytes() grow by 4 + len(key) + len(val).
C9_SizeGrowth ==
    (last.op = "leafInsert" /\ Fresh /\ SrcWellFormed) =>
        /\ ok
        /\ nbytes(mem["new"]) = nbytes(mem["old"]) + 4 + Len(last.key) + Len(last.val)

\* C10: nodeAppendRange(dst, src, dstStart, srcStart, count) makes entry
\* dstStart+j of dst equal to entry srcStart+j of src for j < count, and
\* leaves the entries of dst before dstStart as they were.
C10_AppendRange ==
    [][ (/\ last'.op = "nodeAppendRange"
         /\ SrcWellFormed
         /\ last'.srcIdx + last'.cnt <= Len(built)
         /\ last'.idx + last'.cnt <= nkeys(mem["new"])) =>
            /\ ok'
            /\ \A j \in 0..(last'.cnt - 1) :
                  LayoutEntry(mem'["new"], last'.idx + j) = built[last'.srcIdx + j + 1]
            /\ \A j \in 0..(last'.idx - 1) :
                  LayoutEntry(mem'["new"], j) = LayoutEntry(mem["new"], j) ]_vars

====
